---- MODULE Spec2Model ----
(***************************************************************************)
(* Moderation lifecycle and sequence numbering of api/bot.js.              *)
(*                                                                         *)
(* The file holds two programs: the confession bot (node-telegram-bot-api, *)
(* counter kept in the Firestore document system/counters) and the ideas   *)
(* bot (Telegraf, counter kept in the process variable ideaCounter).  A    *)
(* behaviour runs one of them, chosen in Init by `program`.                *)
(*                                                                         *)
(* A handler that awaits is a task: every step of a task is the effect of  *)
(* the call it is waiting for, followed by the synchronous code up to the  *)
(* next await.  Other handlers' steps interleave between two steps.        *)
(***************************************************************************)
EXTENDS Integers, Sequences, FiniteSets, TLC

\* ---------------------------------------------------------------- bounds
MaxTasks == 2
MaxSubs == 2
NumUsers == 2
NumInstances == 2
MaxComments == 1

\* ------------------------------------------------------ program constants
ReputationDelta == 10
MinLen == 5
MaxLen == 1000
MinComment == 2
MaxComment == 500

Tasks == 1..MaxTasks
SubIds == 1..MaxSubs
Users == 1..NumUsers
Instances == 1..NumInstances
ADMIN_IDS == {1}
TextLens == {MinLen - 1, MinLen, MinLen + 1, MaxLen - 1, MaxLen, MaxLen + 1}

CommentLens == {MinComment - 1, MinComment, MaxComment, MaxComment + 1}

\* text.trim().length for a text of length len: the text has no blanks at
\* its ends, or so many that fewer than MinLen characters are left.
Trimmed(len) == {len, MinLen - 1}

VARIABLES
    program,      \* "confession" or "ideas": which bot this behaviour runs
    confessions,  \* collection 'confessions': SubIds -> document
    ideas,        \* collection 'ideas': SubIds -> document
    counters,     \* document system/counters (confession bot)
    ideaCounter,  \* process variable ideaCounter, one per process instance
    users,        \* collection 'users' (confession bot)
    comments,     \* collection 'comments': SubIds -> the number of the comment
                  \* section (confession bot), the comments stored (ideas bot)
    session,      \* Telegraf session, per process instance and user
    channel,      \* messages of the broadcast channel, in order
    inbox,        \* notices delivered to authors
    tasks,        \* the handlers in flight
    user_rate_limits, \* collection 'user_rate_limits' (confession bot)
    allocLog,     \* history: every number handed out, in order
    reply,        \* the answer the last step gave to a free-text message
    fanout        \* the notification fan-out the last step ran, if it ran one

vars == <<program, confessions, ideas, counters, ideaCounter, users, comments,
          session, channel, inbox, tasks, user_rate_limits, allocLog, reply,
          fanout>>

\* ------------------------------------------------------------- documents
NoConfession ==
    [exists |-> FALSE, userId |-> 0, status |-> "none",
     confessionNumber |-> 0, approvedAt |-> FALSE, createdAt |-> 0,
     text |-> "none"]

NoIdea ==
    [exists |-> FALSE, userId |-> 0, status |-> "none", ideaNumber |-> 0,
     approvedAt |-> FALSE, channelMessageId |-> 0, rejectionReason |-> FALSE,
     commentCount |-> 0, createdAt |-> 0, text |-> "none"]

NoUser ==
    [exists |-> FALSE, isRegistered |-> FALSE, totalConfessions |-> 0,
     reputation |-> 0, cooldown |-> FALSE, isActive |-> TRUE]

\* The empty collection 'comments'.  The confession bot keeps one document
\* per comment section; the ideas bot one per comment, counted here by idea
\* and commenter: stored, the documents written; recent, those of them whose
\* createdAt lies within the last 30000 ms.
NoComments ==
    IF program = "ideas"
    THEN [s \in SubIds |-> [u \in Users |-> [stored |-> 0, recent |-> 0]]]
    ELSE [s \in SubIds |-> 0]

NoSession ==
    [waitingForIdea |-> FALSE, waitingForComment |-> FALSE, commentIdeaId |-> 0,
     rejectingIdea |-> 0, messagingUser |-> 0]

\* The answer of a step to the user whose message or press it handles; a
\* step that answers no text, label or reject press leaves NoReply.
NoReply == "none"

NoTask ==
    [kind |-> "none", pc |-> "idle", from |-> 0, sub |-> 0, inst |-> 0,
     num |-> 0, shown |-> 0, mid |-> 0, author |-> 0, posted |-> FALSE,
     out |-> {}]

isAdmin(userId) == userId \in ADMIN_IDS

\* process.env.ADMIN_IDS split at the commas: the list the fan-outs walk.
adminIds == <<1>>

\* A step that runs no fan-out leaves NoFanout.  list: the ids walked;
\* A document of 'user_rate_limits'.
NoRateLimit == [exists |-> FALSE, commentTimestamps |-> <<>>, updatedAt |-> 0]

\* failing: the recipients whose sendMessage throws (a blocked bot, a deleted
\* chat); attempted: the sends issued, in order; delivered: the recipients
\* that got the message; returned: the recipients the awaited value names.
NoFanout ==
    [list |-> <<>>, failing |-> {}, attempted |-> <<>>, delivered |-> {},
     returned |-> {}]

\* The loop of notifyAdmins and of notifyAdminNewIdea: one send per id, each
\* in a try block of its own whose catch only logs.
RECURSIVE NotifyLoop(_, _, _)
\* (mutant) one try block around the whole loop: the first send that throws
\* ends the fan-out.
NotifyLoopAborting(ids, failing, acc) ==
    IF ids = <<>> THEN acc
    ELSE LET adminId == Head(ids)
             tried == [acc EXCEPT !.attempted = Append(@, adminId)] IN
         IF adminId \in failing
         THEN tried
         ELSE NotifyLoop(Tail(ids), failing,
                         [tried EXCEPT !.delivered = @ \cup {adminId}])

NotifyLoop(ids, failing, acc) ==
    IF ids = <<>> THEN acc
    ELSE LET adminId == Head(ids)
             tried == [acc EXCEPT !.attempted = Append(@, adminId)] IN
         IF adminId \in failing
         THEN NotifyLoop(Tail(ids), failing, tried)
         ELSE NotifyLoop(Tail(ids), failing,
                         [tried EXCEPT !.delivered = @ \cup {adminId}])

\* notifyAdmins(confessionId, text) and notifyAdminNewIdea(...): the loop
\* over the list.  Neither function has a return statement: the value the
\* caller awaits is undefined and names no recipient.
NotifyAdmins(ids, failing) ==
    NotifyLoop(ids, failing, [NoFanout EXCEPT !.list = ids, !.failing = failing])

\* The sets of recipients whose send may throw during one fan-out.
Failing(ids) == SUBSET {ids[k] : k \in 1..Len(ids)}

\* The lifecycle state and the sequence number stored on submission s
\* (0: the document has no number field).
Status(s) ==
    IF program = "confession" THEN confessions[s].status ELSE ideas[s].status

Number(s) ==
    IF program = "confession" THEN confessions[s].confessionNumber
    ELSE ideas[s].ideaNumber

\* The value of the sequence counter the one process works with.
Counter ==
    IF program = "confession" THEN counters.confessionNumber ELSE ideaCounter[1]

\* A handler takes the first free task slot.
Free(t) ==
    /\ tasks[t].pc = "idle"
    /\ t > 1 => tasks[t - 1].pc # "idle"

Begin(t, kind, pc, u, s, i) ==
    [NoTask EXCEPT !.kind = kind, !.pc = pc, !.from = u, !.sub = s, !.inst = i]

Goto(t, pc) == [tasks EXCEPT ![t].pc = pc]

Say(t, pc, text) == [tasks EXCEPT ![t].pc = pc, ![t].out = @ \cup {text}]

\* The store is empty, no handler runs, and every user has a user document
\* (each has run /start, whose getUserProfile creates it).
Init ==
    /\ program \in {"confession", "ideas"}
    /\ confessions = [s \in SubIds |-> NoConfession]
    /\ ideas = [s \in SubIds |-> NoIdea]
    /\ counters = [exists |-> FALSE, confessionNumber |-> 0]
    /\ ideaCounter = [i \in Instances |-> 0]
    /\ users = [u \in Users |-> [NoUser EXCEPT !.exists = TRUE, !.isRegistered = TRUE]]
    /\ comments = NoComments
    /\ session = [i \in Instances |-> [u \in Users |-> NoSession]]
    /\ channel = <<>>
    /\ inbox = {}
    /\ tasks = [t \in Tasks |-> NoTask]
    /\ allocLog = <<>>
    /\ user_rate_limits = [u \in Users |-> NoRateLimit]
    /\ reply = NoReply
    /\ fanout = NoFanout

\* ============================================================ confession bot

\* getNextConfessionNumber: the read-increment-write of one transaction.
NextConfessionNumber(doc) ==
    IF ~doc.exists THEN 1 ELSE doc.confessionNumber + 1

\* (mutant) the update leaves out confessionNumber.
ApprovedWithoutNumber(doc, nextNumber) ==
    [doc EXCEPT !.status = "approved", !.approvedAt = TRUE]

\* The fields written by the approve_ handler's update.
ApprovedConfession(doc, nextNumber) ==
    [doc EXCEPT !.status = "approved", !.confessionNumber = nextNumber,
                !.approvedAt = TRUE]

\* callbackQueryHandlers['approve_'], up to the first await.
ApproveStart(t, u, s, i) ==
    /\ program = "confession"
    /\ Free(t)
    /\ tasks' = [tasks EXCEPT ![t] =
                    IF isAdmin(u)
                    THEN Begin(t, "approve", "get", u, s, i)
                    ELSE [Begin(t, "approve", "done", u, s, i)
                            EXCEPT !.out = {"Access denied"}]]
    /\ reply' = NoReply
    /\ fanout' = NoFanout
    /\ UNCHANGED <<program, user_rate_limits, confessions, ideas, counters, ideaCounter, users,
                   comments, session, channel, inbox, allocLog>>

\* The document read, then the `!doc.exists` return.
ApproveGet(t) ==
    /\ program = "confession"
    /\ tasks[t].kind = "approve" /\ tasks[t].pc = "get"
    /\ LET doc == confessions[tasks[t].sub] IN
       tasks' = IF doc.exists
                THEN [tasks EXCEPT ![t].pc = "alloc", ![t].author = doc.userId]
                ELSE Say(t, "done", "Confession not found")
    /\ reply' = NoReply
    /\ fanout' = NoFanout
    /\ UNCHANGED <<program, user_rate_limits, confessions, ideas, counters, ideaCounter, users,
                   comments, session, channel, inbox, allocLog>>

\* getNextConfessionNumber(): the transaction commits.
GetNextConfessionNumber(t) ==
    /\ program = "confession"
    /\ tasks[t].kind = "approve" /\ tasks[t].pc = "alloc"
    /\ LET next == NextConfessionNumber(counters) IN
       /\ counters' = [exists |-> TRUE, confessionNumber |-> next]
       /\ tasks' = [tasks EXCEPT ![t].pc = "update", ![t].num = next]
       /\ allocLog' = Append(allocLog, [sub |-> tasks[t].sub, num |-> next])
    /\ reply' = NoReply
    /\ fanout' = NoFanout
    /\ UNCHANGED <<program, user_rate_limits, confessions, ideas, ideaCounter, users, comments,
                   session, channel, inbox>>

\* (mutant) the handler writes the status before it asks for the number, so a
\* failed allocation leaves the confession approved without a number.
ThrowsAfterUpdate(t) ==
    /\ program = "confession"
    /\ tasks[t].kind = "approve" /\ tasks[t].pc = "alloc"
    /\ confessions' = [confessions EXCEPT ![tasks[t].sub].status = "approved"]
    /\ tasks' = Say(t, "done", "Approval failed")
    /\ reply' = NoReply
    /\ fanout' = NoFanout
    /\ UNCHANGED <<program, user_rate_limits, ideas, counters, ideaCounter, users, comments,
                   session, channel, inbox, allocLog>>

\* getNextConfessionNumber(): the transaction throws (contention, a store
\* fault).  Nothing is committed, the error is rethrown, and the handler's
\* catch block answers the callback query with 'Approval failed'.
GetNextConfessionNumberThrows(t) ==
    /\ program = "confession"
    /\ tasks[t].kind = "approve" /\ tasks[t].pc = "alloc"
    /\ tasks' = Say(t, "done", "Approval failed")
    /\ reply' = NoReply
    /\ fanout' = NoFanout
    /\ UNCHANGED <<program, user_rate_limits, confessions, ideas, counters, ideaCounter, users,
                   comments, session, channel, inbox, allocLog>>

\* The update of the confession with status, number and approvedAt.
ApproveUpdate(t) ==
    /\ program = "confession"
    /\ tasks[t].kind = "approve" /\ tasks[t].pc = "update"
    /\ confessions' = [confessions EXCEPT ![tasks[t].sub] =
                          ApprovedConfession(@, tasks[t].num)]
    /\ tasks' = Goto(t, "post")
    /\ reply' = NoReply
    /\ fanout' = NoFanout
    /\ UNCHANGED <<program, user_rate_limits, ideas, counters, ideaCounter, users, comments,
                   session, channel, inbox, allocLog>>

\* The update throws (a store fault, a lost connection): nothing is written,
\* and the approve_ handler's catch block answers 'Approval failed'.  The
\* counter keeps the number the transaction has committed.
ApproveUpdateThrows(t) ==
    /\ program = "confession"
    /\ tasks[t].kind = "approve" /\ tasks[t].pc = "update"
    /\ tasks' = Say(t, "done", "Approval failed")
    /\ reply' = NoReply
    /\ fanout' = NoFanout
    /\ UNCHANGED <<program, user_rate_limits, confessions, ideas, counters, ideaCounter, users,
                   comments, session, channel, inbox, allocLog>>

\* postToChannel(confession.text, nextNumber, confessionId): two sendMessage
\* calls to the channel, then createCommentSection.  Its catch block swallows
\* a failure, so the handler goes on in every outcome:
\*   "none"  the first send fails, nothing reaches the channel;
\*   "first" the post is sent, the message with the comment button fails;
\*   "both"  both are sent and the comment section is created.
PostOutcomes == {"none", "first", "both"}

PostToChannel(t, outcome) ==
    LET post == [sub |-> tasks[t].sub, num |-> tasks[t].num] IN
    /\ program = "confession"
    /\ tasks[t].kind = "approve" /\ tasks[t].pc = "post"
    /\ channel' = CASE outcome = "none" -> channel
                    [] outcome = "first" -> Append(channel, post)
                    [] outcome = "both" -> Append(Append(channel, post), post)
    /\ comments' = IF outcome = "both"
                   THEN [comments EXCEPT ![tasks[t].sub] = tasks[t].num]
                   ELSE comments
    /\ tasks' = [tasks EXCEPT ![t].pc = "finish", ![t].posted = (outcome # "none")]
    /\ reply' = NoReply
    /\ fanout' = NoFanout
    /\ UNCHANGED <<program, user_rate_limits, confessions, ideas, counters, ideaCounter, users,
                   session, inbox, allocLog>>

\* getUserProfile: a missing user document is created with the defaults.
GetUserProfile(u) ==
    IF users[u].exists THEN users ELSE [users EXCEPT ![u] = [NoUser EXCEPT !.exists = TRUE]]

\* updateReputation(userId, points): update() of a missing user document
\* throws, and the error is swallowed.
UpdateReputation(u, points) ==
    IF users[u].exists THEN [users EXCEPT ![u].reputation = @ + points] ELSE users

\* What the moderator is shown by the rest of the approve_ handler:
\* editMessageText('Confession #n Approved! Posted to channel successfully.'),
\* answerCallbackQuery('Approved!'), and from the catch block
\* answerCallbackQuery('Approval failed') when one of the two throws.
ConfirmOutcomes == {"ok", "editFails", "answerFails"}

ApproveConfirmation(confirm) ==
    CASE confirm = "ok" -> {"Posted to channel successfully", "Approved!"}
      [] confirm = "editFails" -> {"Approval failed"}
      [] confirm = "answerFails" -> {"Posted to channel successfully", "Approval failed"}

\* The rest of the approve_ handler after postToChannel returns:
\* updateReputation, notifyUser (a failed send is swallowed), the moderator's
\* confirmation, and checkAchievements, which reads the author's profile
\* through getUserProfile.  The achievement list itself is not modelled.
ApproveFinish(t, notified, confirm) ==
    LET author == tasks[t].author IN
    /\ program = "confession"
    /\ tasks[t].kind = "approve" /\ tasks[t].pc = "finish"
    /\ users' = IF confirm = "ok"
                THEN [UpdateReputation(author, ReputationDelta)
                        EXCEPT ![author].exists = TRUE]
                ELSE UpdateReputation(author, ReputationDelta)
    /\ inbox' = IF notified
                THEN inbox \cup {[to |-> author, kind |-> "approved",
                                  sub |-> tasks[t].sub, num |-> tasks[t].num]}
                ELSE inbox
    /\ tasks' = [tasks EXCEPT ![t].pc = "done",
                              ![t].out = @ \cup ApproveConfirmation(confirm)]
    /\ reply' = NoReply
    /\ fanout' = NoFanout
    /\ UNCHANGED <<program, user_rate_limits, confessions, ideas, counters, ideaCounter, comments,
                   session, channel, allocLog>>

\* callbackQueryHandlers['reject_'], reached from the Reject button of the
\* message notifyAdmins sent for a stored confession: the admin check, then
\* the prompt for a reason (editMessageText).  Nothing is stored: neither the
\* confession id nor a pending flow, so the prompt is all the step leaves.
RejectPrompt == "Please provide rejection reason"

RejectConfession(u, s) ==
    /\ program = "confession"
    /\ confessions[s].exists
    /\ reply' = (IF isAdmin(u) THEN RejectPrompt ELSE NoReply)
    /\ fanout' = NoFanout
    /\ UNCHANGED <<program, user_rate_limits, confessions, ideas, counters, ideaCounter, users,
                   comments, session, channel, inbox, tasks, allocLog>>

\* The id `confess_${userId}_${Date.now()}` / `idea_${userId}_${Date.now()}`:
\* the next unused document id (two submissions never share a clock value here).
FreshId(coll) ==
    IF \E s \in SubIds : ~coll[s].exists
    THEN CHOOSE s \in SubIds : ~coll[s].exists /\ \A r \in SubIds : r < s => coll[r].exists
    ELSE 0

\* The place of the document `confess_${userId}_${Date.now()}` (in the ideas
\* bot `idea_${userId}_${Date.now()}`): that of the document of the same user
\* and the same millisecond if the collection holds one, a new one otherwise.
DocId(coll, u, now) ==
    IF \E s \in SubIds : coll[s].exists /\ coll[s].userId = u /\ coll[s].createdAt = now
    THEN CHOOSE s \in SubIds :
            coll[s].exists /\ coll[s].userId = u /\ coll[s].createdAt = now
    ELSE FreshId(coll)

\* The time of the latest document of the collection, and a time after it.
LatestCreatedAt(coll) ==
    LET times == {0} \cup {coll[s].createdAt : s \in SubIds} IN
    CHOOSE n \in times : \A m \in times : m <= n

Later(coll) == LatestCreatedAt(coll) + 1

\* A stored text is kept by the class of its length.
LengthClass(n) ==
    CASE n < MinLen -> "short"
      [] n > MaxLen -> "long"
      [] OTHER -> "ok"

\* sanitizeInput(text).trim(): the script blocks, javascript: prefixes,
\* on...="..." attributes and tags are cut out and the blanks at the ends are
\* dropped.  `trimmed` is the length of text.trim(), `markup` the number of
\* characters of it that the replacements and the second trim take away.
SanitizeInput(trimmed, markup) == trimmed - markup

\* handleConfession(msg, text): a text whose trimmed length is below 5, or
\* whose length is above 1000, is answered and nothing else happens.
\* Otherwise the confession is stored, then users.update() increments the
\* author's count and setCooldown records the time.  users.update() throws
\* when the author has no user document; the catch block then answers 'Error
\* submitting confession' and the stored confession stays.  On success
\* checkAchievements reads the profile.
HandleConfession(u, len, trimmed, now, markup) ==
    LET id == DocId(confessions, u, now) IN
    IF trimmed < MinLen \/ len > MaxLen
    THEN /\ reply' = (IF trimmed < MinLen THEN "Confession too short"
                              ELSE "Confession too long")
         /\ fanout' = NoFanout
         /\ UNCHANGED <<confessions, users>>
    ELSE /\ id # 0
         /\ confessions' = [confessions EXCEPT ![id] =
                               [NoConfession EXCEPT !.exists = TRUE, !.userId = u,
                                                    !.status = "pending",
                                                    !.createdAt = now,
                                                    !.text = LengthClass(
                                                        SanitizeInput(trimmed, markup))]]
         /\ users' = IF users[u].exists
                     THEN [users EXCEPT ![u].totalConfessions = @ + 1,
                                        ![u].cooldown = TRUE]
                     ELSE users
         /\ \E failing \in Failing(adminIds) :
               fanout' = IF users[u].exists THEN NotifyAdmins(adminIds, failing)
                         ELSE NoFanout
         /\ reply' = (IF users[u].exists THEN "Confession Submitted"
                              ELSE "Error submitting confession")

\* commandHandlers['/start']: getUserProfile creates the user document when
\* it is missing; a user whose isActive is false is told so; otherwise
\* isRegistered is set when it is not, and the welcome text with the menu
\* keyboard is sent.
Blocked == "Your account has been blocked by admin"

Start(u) ==
    /\ users' = IF users[u].isActive
                THEN [GetUserProfile(u) EXCEPT ![u].isRegistered = TRUE]
                ELSE users
    /\ reply' = (IF users[u].isActive THEN "Welcome" ELSE Blocked)
    /\ fanout' = NoFanout
    /\ UNCHANGED confessions

\* handleMessage(msg) for a text that is neither a command nor a menu label:
\* a confession when 5 < length < 1000, otherwise commandHandlers['/start'].
\* This is also where the text a moderator sends after pressing Reject
\* arrives.  `trimmed` is the length of text.trim().
HandleMessageAt(u, len, trimmed, now, markup) ==
    /\ program = "confession"
    /\ IF len > MinLen /\ len < MaxLen
       THEN HandleConfession(u, len, trimmed, now, markup)
       ELSE Start(u)
    /\ UNCHANGED <<program, user_rate_limits, ideas, counters, ideaCounter, comments, session,
                   channel, inbox, tasks, allocLog>>

\* A text without markup that arrives in a millisecond of its own.
HandleMessage(u, len, trimmed) ==
    HandleMessageAt(u, len, trimmed, Later(confessions), 0)

\* keyboardCommandHandlers['📝 Send Confession']: getUserProfile, the
\* isActive check, then checkCooldown; within the window the user is told to wait, otherwise the
\* prompt is sent.  Nothing is remembered about the prompt.
SendConfession(u) ==
    /\ program = "confession"
    /\ users' = GetUserProfile(u)
    /\ reply' = (CASE ~users[u].isActive -> Blocked
                   [] users[u].isActive /\ users[u].cooldown -> "Please wait"
                   [] OTHER -> "Send Your Confession")
    /\ fanout' = NoFanout
    /\ UNCHANGED <<program, user_rate_limits, confessions, ideas, counters, ideaCounter, comments,
                   session, channel, inbox, tasks, allocLog>>

\* checkCooldown's clock: the window of 60000 ms since the user's last
\* recorded submission is over.
CooldownElapses(u) ==
    /\ program = "confession"
    /\ users[u].cooldown
    /\ users' = [users EXCEPT ![u].cooldown = FALSE]
    /\ reply' = NoReply
    /\ fanout' = NoFanout
    /\ UNCHANGED <<program, user_rate_limits, confessions, ideas, counters, ideaCounter, comments,
                   session, channel, inbox, tasks, allocLog>>

ConfessionSteps ==
    \E t \in Tasks :
        \/ ApproveGet(t)
        \/ GetNextConfessionNumber(t)
        \/ ApproveUpdate(t)
        \/ \E outcome \in PostOutcomes : PostToChannel(t, outcome)
        \/ \E notified \in BOOLEAN, confirm \in ConfirmOutcomes :
              ApproveFinish(t, notified, confirm)

\* ================================================================ ideas bot

\* startIdeaSubmission (the /submit command and the submit_idea button): the
\* prompt is sent, then the flag is set; a failed send throws before it.
StartIdeaSubmission(u, i, ok) ==
    /\ program = "ideas"
    /\ session' = IF ok THEN [session EXCEPT ![i][u].waitingForIdea = TRUE] ELSE session
    /\ reply' = NoReply
    /\ fanout' = NoFanout
    /\ UNCHANGED <<program, user_rate_limits, confessions, ideas, counters, ideaCounter, users,
                   comments, channel, inbox, tasks, allocLog>>

\* handleIdeaSubmission(ctx, ideaText): the two length checks return with the
\* session as it was; otherwise the idea is stored as pending with the text
\* as it was sent, the admins are
\* notified and the flag is cleared.
HandleIdeaSubmission(u, len, i, now) ==
    IF len < MinLen \/ len > MaxLen
    THEN /\ reply' = (IF len < MinLen THEN "Idea is too short"
                              ELSE "Idea is too long")
         /\ fanout' = NoFanout
         /\ UNCHANGED <<ideas, session>>
    ELSE LET id == DocId(ideas, u, now) IN
         /\ id # 0
         /\ ideas' = [ideas EXCEPT ![id] =
                         [NoIdea EXCEPT !.exists = TRUE, !.userId = u,
                                        !.status = "pending", !.createdAt = now,
                                        !.text = LengthClass(len)]]
         /\ session' = [session EXCEPT ![i][u].waitingForIdea = FALSE]
         /\ \E failing \in Failing(adminIds) :
               fanout' = NotifyAdmins(adminIds, failing)
         /\ reply' = ("Idea Submitted")

\* bot.on('text'): the session flags are tested in this order, and the first
\* one that is set decides the handler.
Route(sess) ==
    CASE sess.waitingForIdea -> "submit"
      [] ~sess.waitingForIdea /\ sess.waitingForComment -> "comment"
      [] ~sess.waitingForIdea /\ ~sess.waitingForComment
            /\ sess.rejectingIdea # 0 -> "reject"
      [] ~sess.waitingForIdea /\ ~sess.waitingForComment
            /\ sess.rejectingIdea = 0 /\ sess.messagingUser # 0 -> "message"
      [] OTHER -> "none"

\* bot.on('text') when the session's first flag, waitingForIdea, is set.
TextAsIdeaAt(u, len, i, now) ==
    /\ program = "ideas"
    /\ Route(session[i][u]) = "submit"
    /\ HandleIdeaSubmission(u, len, i, now)
    /\ UNCHANGED <<program, user_rate_limits, confessions, counters, ideaCounter, users, comments,
                   channel, inbox, tasks, allocLog>>

\* A text that arrives in a millisecond of its own.
TextAsIdea(u, len, i) == TextAsIdeaAt(u, len, i, Later(ideas))

\* bot.action(/approve_idea_(.+)/): approveIdea(ctx, ideaId) up to its first
\* await.  The handler has no admin check.
ApproveIdeaStart(t, u, s, i) ==
    /\ program = "ideas"
    /\ Free(t)
    /\ tasks' = [tasks EXCEPT ![t] = Begin(t, "approveIdea", "get", u, s, i)]
    /\ reply' = NoReply
    /\ fanout' = NoFanout
    /\ UNCHANGED <<program, user_rate_limits, confessions, ideas, counters, ideaCounter, users,
                   comments, session, channel, inbox, allocLog>>

\* `ideaCounter += 1`
NextIdeaNumber(counter) == counter + 1

\* The fields written by approveIdea's first update.
ApprovedIdea(doc, number) ==
    [doc EXCEPT !.status = "approved", !.ideaNumber = number, !.approvedAt = TRUE]

\* (mutant) ideaCounter is incremented before the idea is looked at.
ApproveIdeaGetCounting(t) ==
    LET doc == ideas[tasks[t].sub]
        i == tasks[t].inst
        next == NextIdeaNumber(ideaCounter[i]) IN
    /\ program = "ideas"
    /\ tasks[t].kind = "approveIdea" /\ tasks[t].pc = "get"
    /\ ideaCounter' = [ideaCounter EXCEPT ![i] = next]
    /\ allocLog' = Append(allocLog, [sub |-> tasks[t].sub, num |-> next])
    /\ tasks' = IF doc.exists
                THEN [tasks EXCEPT ![t].pc = "update", ![t].num = next,
                                   ![t].author = doc.userId]
                ELSE Say(t, "done", "Idea not found")
    /\ reply' = NoReply
    /\ fanout' = NoFanout
    /\ UNCHANGED <<program, user_rate_limits, confessions, ideas, counters, users, comments,
                   session, channel, inbox>>

\* The document read returns.  A missing idea is answered 'Idea not found';
\* otherwise ideaCounter is incremented and the update is issued with the
\* value it has at that moment.
ApproveIdeaGet(t) ==
    LET doc == ideas[tasks[t].sub]
        i == tasks[t].inst
        next == NextIdeaNumber(ideaCounter[i]) IN
    /\ program = "ideas"
    /\ tasks[t].kind = "approveIdea" /\ tasks[t].pc = "get"
    /\ IF doc.exists
       THEN /\ ideaCounter' = [ideaCounter EXCEPT ![i] = next]
            /\ tasks' = [tasks EXCEPT ![t].pc = "update", ![t].num = next,
                                      ![t].author = doc.userId]
            /\ allocLog' = Append(allocLog, [sub |-> tasks[t].sub, num |-> next])
       ELSE /\ tasks' = Say(t, "done", "Idea not found")
            /\ UNCHANGED <<ideaCounter, allocLog>>
    /\ reply' = NoReply
    /\ fanout' = NoFanout
    /\ UNCHANGED <<program, user_rate_limits, confessions, ideas, counters, users, comments,
                   session, channel, inbox>>

\* The update is applied; postIdeaToChannel(idea, ideaCounter) is then called
\* with the value ideaCounter has now.
ApproveIdeaUpdate(t) ==
    /\ program = "ideas"
    /\ tasks[t].kind = "approveIdea" /\ tasks[t].pc = "update"
    /\ ideas' = [ideas EXCEPT ![tasks[t].sub] = ApprovedIdea(@, tasks[t].num)]
    /\ tasks' = [tasks EXCEPT ![t].pc = "post",
                              ![t].shown = ideaCounter[tasks[t].inst]]
    /\ reply' = NoReply
    /\ fanout' = NoFanout
    /\ UNCHANGED <<program, user_rate_limits, confessions, counters, ideaCounter, users, comments,
                   session, channel, inbox, allocLog>>

\* The update throws: nothing is written, approveIdea's catch block answers
\* 'Error approving idea', and ideaCounter keeps its increment.
ApproveIdeaUpdateThrows(t) ==
    /\ program = "ideas"
    /\ tasks[t].kind = "approveIdea" /\ tasks[t].pc = "update"
    /\ tasks' = Say(t, "done", "Error approving idea")
    /\ reply' = NoReply
    /\ fanout' = NoFanout
    /\ UNCHANGED <<program, user_rate_limits, confessions, ideas, counters, ideaCounter, users,
                   comments, session, channel, inbox, allocLog>>

\* postIdeaToChannel: the send to the channel.  On failure it throws 'Failed
\* to post to channel', and approveIdea's catch block answers 'Error
\* approving idea'.  On success the second update, of channelMessageId, is
\* issued.
PostIdeaToChannel(t, ok) ==
    /\ program = "ideas"
    /\ tasks[t].kind = "approveIdea" /\ tasks[t].pc = "post"
    /\ IF ok
       THEN /\ channel' = Append(channel, [sub |-> tasks[t].sub, num |-> tasks[t].shown])
            /\ tasks' = [tasks EXCEPT ![t].pc = "ref", ![t].mid = Len(channel) + 1,
                                      ![t].posted = TRUE]
       ELSE /\ channel' = channel
            /\ tasks' = Say(t, "done", "Error approving idea")
    /\ reply' = NoReply
    /\ fanout' = NoFanout
    /\ UNCHANGED <<program, user_rate_limits, confessions, ideas, counters, ideaCounter, users,
                   comments, session, inbox, allocLog>>

\* The update of channelMessageId is applied; the author's notice is then
\* built with the value ideaCounter has now.
StoreChannelMessageId(t) ==
    /\ program = "ideas"
    /\ tasks[t].kind = "approveIdea" /\ tasks[t].pc = "ref"
    /\ ideas' = [ideas EXCEPT ![tasks[t].sub].channelMessageId = tasks[t].mid]
    /\ tasks' = [tasks EXCEPT ![t].pc = "notify",
                              ![t].shown = ideaCounter[tasks[t].inst]]
    /\ reply' = NoReply
    /\ fanout' = NoFanout
    /\ UNCHANGED <<program, user_rate_limits, confessions, counters, ideaCounter, users, comments,
                   session, channel, inbox, allocLog>>

\* The notice to the author.  A failed send is not caught locally: it ends
\* the handler in the catch block.  Otherwise the moderator's confirmation is
\* built with the value ideaCounter has now.
NotifyIdeaOwner(t, ok) ==
    /\ program = "ideas"
    /\ tasks[t].kind = "approveIdea" /\ tasks[t].pc = "notify"
    /\ IF ok
       THEN /\ inbox' = inbox \cup {[to |-> tasks[t].author, kind |-> "approved",
                                     sub |-> tasks[t].sub, num |-> tasks[t].shown]}
            /\ tasks' = [tasks EXCEPT ![t].pc = "confirm",
                                      ![t].shown = ideaCounter[tasks[t].inst]]
       ELSE /\ inbox' = inbox
            /\ tasks' = Say(t, "done", "Error approving idea")
    /\ reply' = NoReply
    /\ fanout' = NoFanout
    /\ UNCHANGED <<program, user_rate_limits, confessions, ideas, counters, ideaCounter, users,
                   comments, session, channel, allocLog>>

\* editMessageText('Idea #n Approved! Idea has been posted to the channel and
\* user has been notified.'), answerCbQuery('Idea approved!'), and from the
\* catch block answerCbQuery('Error approving idea').
IdeaConfirmation(confirm) ==
    CASE confirm = "ok" -> {"Idea has been posted to the channel", "Idea approved!"}
      [] confirm = "editFails" -> {"Error approving idea"}
      [] confirm = "answerFails" -> {"Idea has been posted to the channel",
                                     "Error approving idea"}

ConfirmIdea(t, confirm) ==
    /\ program = "ideas"
    /\ tasks[t].kind = "approveIdea" /\ tasks[t].pc = "confirm"
    /\ tasks' = [tasks EXCEPT ![t].pc = "done",
                              ![t].out = @ \cup IdeaConfirmation(confirm)]
    /\ reply' = NoReply
    /\ fanout' = NoFanout
    /\ UNCHANGED <<program, user_rate_limits, confessions, ideas, counters, ideaCounter, users,
                   comments, session, channel, inbox, allocLog>>

\* rejectIdea(ctx, ideaId): the prompt for a reason replaces the buttons,
\* then the idea id is kept in the presser's session.  No admin check, and no
\* look at the idea.
RejectIdea(u, s, i, ok) ==
    /\ program = "ideas"
    /\ session' = IF ok THEN [session EXCEPT ![i][u].rejectingIdea = s] ELSE session
    /\ reply' = NoReply
    /\ fanout' = NoFanout
    /\ UNCHANGED <<program, user_rate_limits, confessions, ideas, counters, ideaCounter, users,
                   comments, channel, inbox, tasks, allocLog>>

\* bot.on('text') when waitingForIdea is not set and rejectingIdea is:
\* handleIdeaRejection(ctx, reason) up to its first await.
HandleIdeaRejectionStart(t, u, i) ==
    /\ program = "ideas"
    /\ Free(t)
    /\ Route(session[i][u]) = "reject"
    /\ tasks' = [tasks EXCEPT ![t] =
                    Begin(t, "reason", "get", u, session[i][u].rejectingIdea, i)]
    /\ reply' = NoReply
    /\ fanout' = NoFanout
    /\ UNCHANGED <<program, user_rate_limits, confessions, ideas, counters, ideaCounter, users,
                   comments, session, channel, inbox, allocLog>>

\* The fields written by handleIdeaRejection's update.
RejectedIdea(doc) ==
    [doc EXCEPT !.status = "rejected", !.rejectionReason = TRUE]

\* The document read returns: a missing idea clears the session and ends the
\* handler; an existing one, whatever its status, gets the update issued.
HandleIdeaRejectionGet(t) ==
    LET doc == ideas[tasks[t].sub] IN
    /\ program = "ideas"
    /\ tasks[t].kind = "reason" /\ tasks[t].pc = "get"
    /\ IF doc.exists
       THEN /\ tasks' = [tasks EXCEPT ![t].pc = "update", ![t].author = doc.userId]
            /\ session' = session
       ELSE /\ tasks' = Goto(t, "done")
            /\ session' = [session EXCEPT ![tasks[t].inst][tasks[t].from].rejectingIdea = 0]
    /\ reply' = NoReply
    /\ fanout' = NoFanout
    /\ UNCHANGED <<program, user_rate_limits, confessions, ideas, counters, ideaCounter, users,
                   comments, channel, inbox, allocLog>>

\* (mutant) the rejection takes a number from ideaCounter, as approveIdea does.
HandleIdeaRejectionCounting(t) ==
    /\ program = "ideas"
    /\ tasks[t].kind = "reason" /\ tasks[t].pc = "update"
    /\ ideaCounter' = [ideaCounter EXCEPT ![tasks[t].inst] = @ + 1]
    /\ ideas' = [ideas EXCEPT ![tasks[t].sub] = RejectedIdea(@)]
    /\ tasks' = Goto(t, "finish")
    /\ reply' = NoReply
    /\ fanout' = NoFanout
    /\ UNCHANGED <<program, user_rate_limits, confessions, counters, users, comments,
                   session, channel, inbox, allocLog>>

\* The update to status 'rejected' is applied.
HandleIdeaRejectionUpdate(t) ==
    /\ program = "ideas"
    /\ tasks[t].kind = "reason" /\ tasks[t].pc = "update"
    /\ ideas' = [ideas EXCEPT ![tasks[t].sub] = RejectedIdea(@)]
    /\ tasks' = Goto(t, "finish")
    /\ reply' = NoReply
    /\ fanout' = NoFanout
    /\ UNCHANGED <<program, user_rate_limits, confessions, counters, ideaCounter, users, comments,
                   session, channel, inbox, allocLog>>

\* The notice to the author, the reply to the moderator and the clearing of
\* the session.  Neither send is caught in the handler: when one throws, the
\* session keeps rejectingIdea and bot.catch answers 'An error occurred'.
RejectionOutcomes == {"ok", "notifyFails", "replyFails"}

HandleIdeaRejectionFinish(t, outcome) ==
    LET notice == [to |-> tasks[t].author, kind |-> "rejected",
                   sub |-> tasks[t].sub, num |-> 0] IN
    /\ program = "ideas"
    /\ tasks[t].kind = "reason" /\ tasks[t].pc = "finish"
    /\ inbox' = IF outcome = "notifyFails" THEN inbox ELSE inbox \cup {notice}
    /\ tasks' = Say(t, "done", IF outcome = "ok" THEN "Idea rejected with reason"
                               ELSE "An error occurred")
    /\ session' = IF outcome = "ok"
                  THEN [session EXCEPT ![tasks[t].inst][tasks[t].from].rejectingIdea = 0]
                  ELSE session
    /\ reply' = NoReply
    /\ fanout' = NoFanout
    /\ UNCHANGED <<program, user_rate_limits, confessions, ideas, counters, ideaCounter, users,
                   comments, channel, allocLog>>

\* handleCommentButtonClick(ctx, ideaId), reached from the comment button
\* under a channel post: a missing idea is answered 'Idea not found';
\* otherwise the two comment fields of the session are set.
HandleCommentButtonClick(u, s, i) ==
    /\ program = "ideas"
    /\ \E n \in DOMAIN channel : channel[n].sub = s
    /\ session' = IF ideas[s].exists
                  THEN [session EXCEPT ![i][u].waitingForComment = TRUE,
                                       ![i][u].commentIdeaId = s]
                  ELSE session
    /\ reply' = NoReply
    /\ fanout' = NoFanout
    /\ UNCHANGED <<program, user_rate_limits, confessions, ideas, counters, ideaCounter, users,
                   comments, channel, inbox, tasks, allocLog>>

\* (mutant) a comment that fails validation ends the comment flow.
HandleCommentSubmissionClearing(t, u, len, i) ==
    LET ideaId == session[i][u].commentIdeaId IN
    IF ideaId = 0 \/ len < MinComment \/ len > MaxComment
    THEN /\ reply' = (CASE ideaId = 0 -> "No idea selected"
                        [] ideaId # 0 /\ len < MinComment -> "Comment is too short"
                        [] OTHER -> "Comment is too long")
         /\ session' = [session EXCEPT ![i][u].waitingForComment = FALSE,
                                       ![i][u].commentIdeaId = 0]
         /\ UNCHANGED <<comments, tasks>>
    ELSE /\ Free(t)
         /\ comments' = [comments EXCEPT ![ideaId][u].stored = @ + 1,
                                         ![ideaId][u].recent = @ + 1]
         /\ tasks' = [tasks EXCEPT ![t] = Begin(t, "comment", "get", u, ideaId, i)]
         /\ reply' = NoReply
         /\ UNCHANGED session

\* handleCommentSubmission(ctx, commentText) up to the read of the idea: the
\* checks of the target and of the length answer and return with the
\* session as it was; otherwise the comment document is written.  Neither
\* checkCommentRateLimit nor recordComment is called, and the idea is not
\* looked at before the write.
HandleCommentSubmission(t, u, len, i) ==
    LET ideaId == session[i][u].commentIdeaId IN
    IF ideaId = 0 \/ len < MinComment \/ len > MaxComment
    THEN /\ reply' = (CASE ideaId = 0 -> "No idea selected"
                        [] ideaId # 0 /\ len < MinComment -> "Comment is too short"
                        [] OTHER -> "Comment is too long")
         /\ UNCHANGED <<comments, session, tasks>>
    ELSE /\ Free(t)
         /\ comments' = [comments EXCEPT ![ideaId][u].stored = @ + 1,
                                         ![ideaId][u].recent = @ + 1]
         /\ tasks' = [tasks EXCEPT ![t] = Begin(t, "comment", "get", u, ideaId, i)]
         /\ reply' = NoReply
         /\ UNCHANGED session

\* bot.on('text') when waitingForComment is the first flag that is set.
TextAsComment(u, len, i) ==
    /\ program = "ideas"
    /\ Route(session[i][u]) = "comment"
    /\ \E t \in Tasks : HandleCommentSubmission(t, u, len, i)
    /\ fanout' = NoFanout
    /\ UNCHANGED <<program, user_rate_limits, confessions, ideas, counters, ideaCounter, users,
                   channel, inbox, allocLog>>

\* The idea is read and newCount computed from its commentCount.  A missing
\* idea makes idea.commentCount throw: the catch block answers 'Error
\* submitting comment' and the session stays.
CommentGet(t) ==
    LET idea == ideas[tasks[t].sub] IN
    /\ program = "ideas"
    /\ tasks[t].kind = "comment" /\ tasks[t].pc = "get"
    /\ IF idea.exists
       THEN /\ tasks' = [tasks EXCEPT ![t].pc = "update",
                                      ![t].num = idea.commentCount + 1,
                                      ![t].author = idea.userId]
            /\ reply' = NoReply
       ELSE /\ tasks' = [tasks EXCEPT ![t] = NoTask]
            /\ reply' = "Error submitting comment"
    /\ fanout' = NoFanout
    /\ UNCHANGED <<program, user_rate_limits, confessions, ideas, counters, ideaCounter, users,
                   comments, session, channel, inbox, allocLog>>

\* ideas.update({commentCount: newCount}): the count computed from the read
\* is written, whatever the document holds by now.
CommentUpdate(t) ==
    /\ program = "ideas"
    /\ tasks[t].kind = "comment" /\ tasks[t].pc = "update"
    /\ ideas' = [ideas EXCEPT ![tasks[t].sub].commentCount = tasks[t].num]
    /\ tasks' = Goto(t, "finish")
    /\ reply' = NoReply
    /\ fanout' = NoFanout
    /\ UNCHANGED <<program, user_rate_limits, confessions, counters, ideaCounter, users, comments,
                   session, channel, inbox, allocLog>>

\* notifyIdeaOwnerNewComment(idea, ...): one send, to idea.userId, in a try
\* block whose catch only logs; nothing is returned.
NotifyIdeaOwnerNewComment(owner, ok) ==
    [NoFanout EXCEPT !.list = <<owner>>,
                     !.failing = IF ok THEN {} ELSE {owner},
                     !.attempted = <<owner>>,
                     !.delivered = IF ok THEN {owner} ELSE {}]

\* (mutant) the owner is notified of every comment, the owner's own too.
CommentFinishAlways(t, ok) ==
    LET notice == [to |-> tasks[t].author, kind |-> "comment",
                   sub |-> tasks[t].sub, num |-> 0] IN
    /\ program = "ideas"
    /\ tasks[t].kind = "comment" /\ tasks[t].pc = "finish"
    /\ fanout' = NotifyIdeaOwnerNewComment(tasks[t].author, ok)
    /\ inbox' = IF ok THEN inbox \cup {notice} ELSE inbox
    /\ session' = [session EXCEPT ![tasks[t].inst][tasks[t].from].waitingForComment = FALSE,
                                  ![tasks[t].inst][tasks[t].from].commentIdeaId = 0]
    /\ tasks' = [tasks EXCEPT ![t] = NoTask]
    /\ reply' = "Comment Added"
    /\ UNCHANGED <<program, user_rate_limits, confessions, ideas, counters, ideaCounter, users,
                   comments, channel, allocLog>>

\* The rest of handleCommentSubmission: updateChannelCommentCount rewrites
\* the button under the channel post (its failure is only logged), the
\* idea's owner is notified unless the owner is the commenter, the two
\* comment fields of the session are cleared and the commenter is answered.
CommentFinish(t, ok) ==
    LET notice == [to |-> tasks[t].author, kind |-> "comment",
                   sub |-> tasks[t].sub, num |-> 0]
        notified == tasks[t].author # tasks[t].from IN
    /\ program = "ideas"
    /\ tasks[t].kind = "comment" /\ tasks[t].pc = "finish"
    /\ fanout' = IF notified THEN NotifyIdeaOwnerNewComment(tasks[t].author, ok)
                 ELSE NoFanout
    /\ inbox' = IF notified /\ ok THEN inbox \cup {notice} ELSE inbox
    /\ session' = [session EXCEPT ![tasks[t].inst][tasks[t].from].waitingForComment = FALSE,
                                  ![tasks[t].inst][tasks[t].from].commentIdeaId = 0]
    /\ tasks' = [tasks EXCEPT ![t] = NoTask]
    /\ reply' = "Comment Added"
    /\ UNCHANGED <<program, user_rate_limits, confessions, ideas, counters, ideaCounter, users,
                   comments, channel, allocLog>>

\* The clock of the comments: more than 30000 ms pass, and no stored comment
\* is recent any longer.
CommentWindowElapses ==
    /\ program = "ideas"
    /\ \E s \in SubIds, u \in Users : comments[s][u].recent > 0
    /\ comments' = [s \in SubIds |-> [u \in Users |->
                        [comments[s][u] EXCEPT !.recent = 0]]]
    /\ reply' = NoReply
    /\ fanout' = NoFanout
    /\ UNCHANGED <<program, user_rate_limits, confessions, ideas, counters, ideaCounter, users,
                   session, channel, inbox, tasks, allocLog>>

\* bot.action(/message_user_(.+)/): the prompt replaces the moderator's
\* message, then the user id is kept in the presser's session.
MessageUser(u, target, i, ok) ==
    /\ program = "ideas"
    /\ \E s \in SubIds : ideas[s].exists /\ ideas[s].userId = target
    /\ session' = IF ok THEN [session EXCEPT ![i][u].messagingUser = target] ELSE session
    /\ reply' = NoReply
    /\ fanout' = NoFanout
    /\ UNCHANGED <<program, user_rate_limits, confessions, ideas, counters, ideaCounter, users,
                   comments, channel, inbox, tasks, allocLog>>

\* bot.on('text') when messagingUser is the first flag that is set:
\* handleAdminMessage(ctx, message) sends the text on, answers the moderator
\* either way, and clears messagingUser.
HandleAdminMessage(u, i, ok) ==
    /\ program = "ideas"
    /\ Route(session[i][u]) = "message"
    /\ inbox' = IF ok
                THEN inbox \cup {[to |-> session[i][u].messagingUser,
                                  kind |-> "message", sub |-> 0, num |-> 0]}
                ELSE inbox
    /\ session' = [session EXCEPT ![i][u].messagingUser = 0]
    /\ reply' = (IF ok THEN "Message sent to user" ELSE "Failed to send message")
    /\ fanout' = NoFanout
    /\ UNCHANGED <<program, user_rate_limits, confessions, ideas, counters, ideaCounter, users,
                   comments, channel, tasks, allocLog>>

\* bot.on('text') when no flag is set: none of the four tests succeeds and
\* the handler returns; the text gets no answer.
TextIdle(u, i) ==
    /\ program = "ideas"
    /\ Route(session[i][u]) = "none"
    /\ reply' = "no answer"
    /\ fanout' = NoFanout
    /\ UNCHANGED <<program, user_rate_limits, confessions, ideas, counters, ideaCounter, users,
                   comments, session, channel, inbox, tasks, allocLog>>

ApproveIdeaSteps ==
    \E t \in Tasks :
        \/ ApproveIdeaGet(t)
        \/ ApproveIdeaUpdate(t)
        \/ \E ok \in BOOLEAN : PostIdeaToChannel(t, ok)
        \/ StoreChannelMessageId(t)
        \/ \E ok \in BOOLEAN : NotifyIdeaOwner(t, ok)
        \/ \E confirm \in ConfirmOutcomes : ConfirmIdea(t, confirm)

CommentSteps ==
    \E t \in Tasks :
        \/ CommentGet(t)
        \/ CommentUpdate(t)
        \/ \E ok \in BOOLEAN : CommentFinish(t, ok)

\* The comment documents stored, of idea s and by user u.
RECURSIVE Sum(_, _)
Sum(f, S) ==
    IF S = {} THEN 0
    ELSE LET x == CHOOSE y \in S : TRUE IN f[x] + Sum(f, S \ {x})

CommentsOn(s) == Sum([u \in Users |-> comments[s][u].stored], Users)

CommentsStored == Sum([s \in SubIds |-> CommentsOn(s)], SubIds)

\* The comments of user u created within the last 30000 ms.
RecentBy(u) == Sum([s \in SubIds |-> comments[s][u].recent], SubIds)

HandleIdeaRejectionSteps ==
    \E t \in Tasks :
        \/ HandleIdeaRejectionGet(t)
        \/ HandleIdeaRejectionUpdate(t)
        \/ \E outcome \in RejectionOutcomes : HandleIdeaRejectionFinish(t, outcome)

\* The events a process instance i can be handed.  The approve and reject
\* buttons are attached only to the messages that notifyAdmins and
\* notifyAdminNewIdea send to the ids of ADMIN_IDS, so the presses come from
\* those users; texts and commands come from every user.
Events(i) ==
    \/ \E t \in Tasks, u \in ADMIN_IDS, s \in SubIds : ApproveStart(t, u, s, i)
    \/ \E u \in ADMIN_IDS, s \in SubIds : RejectConfession(u, s)
    \/ \E u \in Users, len \in TextLens :
          \E trimmed \in Trimmed(len) : HandleMessage(u, len, trimmed)
    \/ \E u \in Users, ok \in BOOLEAN : StartIdeaSubmission(u, i, ok)
    \/ \E u \in Users, len \in TextLens : TextAsIdea(u, len, i)
    \/ \E t \in Tasks, u \in ADMIN_IDS, s \in SubIds : ApproveIdeaStart(t, u, s, i)
    \/ \E u \in ADMIN_IDS, s \in SubIds, ok \in BOOLEAN : RejectIdea(u, s, i, ok)
    \/ \E t \in Tasks, u \in Users : HandleIdeaRejectionStart(t, u, i)

\* initializeIdeaCounter(): the highest ideaNumber among the approved ideas,
\* and 0, the variable's initial value, when there is none.
RECURSIVE MaxOf(_)
MaxOf(S) ==
    IF S = {} THEN 0
    ELSE LET x == CHOOSE y \in S : TRUE
             m == MaxOf(S \ {x}) IN
         IF x > m THEN x ELSE m

InitializeIdeaCounter ==
    MaxOf({ideas[s].ideaNumber : s \in {r \in SubIds : ideas[r].status = "approved"}})

\* A process instance starts anew (a cold start of the serverless function,
\* or a restart): its handlers in flight are lost with its memory, that is,
\* its sessions and its ideaCounter, which starts at 0 again.  Only under
\* NODE_ENV = 'development' does the start call initializeIdeaCounter().
Restart(i, development) ==
    /\ tasks' = [t \in Tasks |->
                    IF tasks[t].inst = i /\ tasks[t].pc \notin {"idle", "done"}
                    THEN [tasks[t] EXCEPT !.pc = "lost"]
                    ELSE tasks[t]]
    /\ session' = [session EXCEPT ![i] = [u \in Users |-> NoSession]]
    /\ ideaCounter' = [ideaCounter EXCEPT ![i] =
                          IF program = "ideas" /\ development
                          THEN InitializeIdeaCounter ELSE 0]
    /\ reply' = NoReply
    /\ fanout' = NoFanout
    /\ UNCHANGED <<program, user_rate_limits, confessions, ideas, counters, users, comments,
                   channel, inbox, allocLog>>

\* One process serves every event.
Next ==
    \/ ConfessionSteps
    \/ ApproveIdeaSteps
    \/ HandleIdeaRejectionSteps
    \/ Events(1)

Spec == Init /\ [][Next]_vars

\* The lifetime of a store that several process instances serve, each of
\* which may start anew at any time.  Every submission is already stored as
\* pending; the moderators' presses reach any instance.
InitLifetime ==
    /\ program \in {"confession", "ideas"}
    /\ confessions = [s \in SubIds |->
                        IF program = "confession"
                        THEN [NoConfession EXCEPT !.exists = TRUE, !.userId = NumUsers,
                                                  !.status = "pending"]
                        ELSE NoConfession]
    /\ ideas = [s \in SubIds |->
                  IF program = "ideas"
                  THEN [NoIdea EXCEPT !.exists = TRUE, !.userId = NumUsers,
                                      !.status = "pending"]
                  ELSE NoIdea]
    /\ counters = [exists |-> FALSE, confessionNumber |-> 0]
    /\ ideaCounter = [i \in Instances |-> 0]
    /\ users = [u \in Users |-> [NoUser EXCEPT !.exists = TRUE, !.isRegistered = TRUE]]
    /\ comments = NoComments
    /\ session = [i \in Instances |-> [u \in Users |-> NoSession]]
    /\ channel = <<>>
    /\ inbox = {}
    /\ tasks = [t \in Tasks |-> NoTask]
    /\ allocLog = <<>>
    /\ user_rate_limits = [u \in Users |-> NoRateLimit]
    /\ reply = NoReply
    /\ fanout = NoFanout

NextLifetime ==
    \/ ConfessionSteps
    \/ ApproveIdeaSteps
    \/ HandleIdeaRejectionSteps
    \/ \E i \in Instances :
          \/ \E t \in Tasks, u \in ADMIN_IDS, s \in SubIds : ApproveStart(t, u, s, i)
          \/ \E t \in Tasks, u \in ADMIN_IDS, s \in SubIds : ApproveIdeaStart(t, u, s, i)
          \/ \E u \in ADMIN_IDS, s \in SubIds, ok \in BOOLEAN : RejectIdea(u, s, i, ok)
          \/ \E t \in Tasks, u \in Users : HandleIdeaRejectionStart(t, u, i)
          \/ \E development \in BOOLEAN : Restart(i, development)

SpecLifetime == InitLifetime /\ [][NextLifetime]_vars

\* The same store served by several process instances that never start anew:
\* concurrent webhook requests are handed to different instances.
NextInstances ==
    \/ ConfessionSteps
    \/ ApproveIdeaSteps
    \/ \E i \in Instances :
          \/ \E t \in Tasks, u \in ADMIN_IDS, s \in SubIds : ApproveStart(t, u, s, i)
          \/ \E t \in Tasks, u \in ADMIN_IDS, s \in SubIds : ApproveIdeaStart(t, u, s, i)

SpecInstances == InitLifetime /\ [][NextInstances]_vars

\* One process whose counter transaction may throw, on a store that holds
\* pending submissions.
NextFaults ==
    \/ ConfessionSteps
    \/ \E t \in Tasks : GetNextConfessionNumberThrows(t)
    \/ \E t \in Tasks, u \in ADMIN_IDS, s \in SubIds : ApproveStart(t, u, s, 1)

SpecFaults == InitLifetime /\ [][NextFaults]_vars

\* The messages one process is sent: texts, menu labels and the buttons that
\* start a flow.  The confession bot starts with no user known; the ideas
\* bot with one idea approved and posted, whose channel post carries the
\* comment button, and it is sent the messages of a moderator, who can start
\* each of the four flows (a session belongs to one user, and no handler
\* reads another user's).
InitMessages ==
    /\ program \in {"confession", "ideas"}
    /\ confessions = [s \in SubIds |-> NoConfession]
    /\ ideas = [s \in SubIds |->
                  IF program = "ideas" /\ s = 1
                  THEN [NoIdea EXCEPT !.exists = TRUE, !.userId = NumUsers,
                                      !.status = "approved", !.ideaNumber = 1,
                                      !.approvedAt = TRUE, !.channelMessageId = 1]
                  ELSE NoIdea]
    /\ counters = [exists |-> FALSE, confessionNumber |-> 0]
    /\ ideaCounter = [i \in Instances |->
                        IF program = "ideas" /\ i = 1 THEN 1 ELSE 0]
    /\ users = [u \in Users |-> NoUser]
    /\ comments = NoComments
    /\ session = [i \in Instances |-> [u \in Users |-> NoSession]]
    /\ channel = IF program = "ideas" THEN <<[sub |-> 1, num |-> 1]>> ELSE <<>>
    /\ inbox = IF program = "ideas"
               THEN {[to |-> NumUsers, kind |-> "approved", sub |-> 1, num |-> 1]}
               ELSE {}
    /\ tasks = [t \in Tasks |-> NoTask]
    /\ allocLog = IF program = "ideas" THEN <<[sub |-> 1, num |-> 1]>> ELSE <<>>
    /\ user_rate_limits = [u \in Users |-> NoRateLimit]
    /\ reply = NoReply
    /\ fanout = NoFanout

NextMessages ==
    \/ \E u \in Users, len \in TextLens :
          \E trimmed \in Trimmed(len) : HandleMessage(u, len, trimmed)
    \/ \E u \in Users : SendConfession(u)
    \/ \E u \in Users : CooldownElapses(u)
    \/ \E u \in ADMIN_IDS :
          \/ \E ok \in BOOLEAN : StartIdeaSubmission(u, 1, ok)
          \/ \E len \in TextLens : TextAsIdea(u, len, 1)
          \/ \E s \in SubIds : HandleCommentButtonClick(u, s, 1)
          \/ \E len \in CommentLens :
                TextAsComment(u, len, 1) /\ CommentsStored < MaxComments
          \/ \E s \in SubIds, ok \in BOOLEAN : RejectIdea(u, s, 1, ok)
          \/ \E t \in Tasks : HandleIdeaRejectionStart(t, u, 1)
          \/ \E target \in Users, ok \in BOOLEAN : MessageUser(u, target, 1, ok)
          \/ \E ok \in BOOLEAN : HandleAdminMessage(u, 1, ok)
          \/ TextIdle(u, 1)
    \/ HandleIdeaRejectionSteps
    \/ CommentSteps

SpecMessages == InitMessages /\ [][NextMessages]_vars

\* The comments on the idea that is posted in the channel: every user can
\* press the comment button under the post and send texts, up to MaxBurst
\* comments are stored, and the clock of the comments runs.  The idea is
\* approved, or it has been rejected after its approval by a moderator whose
\* admin message still had its buttons; the notice of that is in the inbox.
MaxBurst == 4

InitComments ==
    /\ program = "ideas"
    /\ \E rejected \in BOOLEAN :
          /\ ideas = [s \in SubIds |->
                        IF s = 1
                        THEN [NoIdea EXCEPT !.exists = TRUE, !.userId = NumUsers,
                                            !.status = IF rejected THEN "rejected"
                                                       ELSE "approved",
                                            !.rejectionReason = rejected,
                                            !.ideaNumber = 1, !.approvedAt = TRUE,
                                            !.channelMessageId = 1]
                        ELSE NoIdea]
          /\ inbox = {[to |-> NumUsers, kind |-> "approved", sub |-> 1, num |-> 1]}
                         \cup (IF rejected
                                THEN {[to |-> NumUsers, kind |-> "rejected",
                                       sub |-> 1, num |-> 0]}
                                ELSE {})
    /\ confessions = [s \in SubIds |-> NoConfession]
    /\ counters = [exists |-> FALSE, confessionNumber |-> 0]
    /\ ideaCounter = [i \in Instances |-> IF i = 1 THEN 1 ELSE 0]
    /\ users = [u \in Users |-> NoUser]
    /\ comments = NoComments
    /\ session = [i \in Instances |-> [u \in Users |-> NoSession]]
    /\ channel = <<[sub |-> 1, num |-> 1]>>
    /\ tasks = [t \in Tasks |-> NoTask]
    /\ allocLog = <<[sub |-> 1, num |-> 1]>>
    /\ user_rate_limits = [u \in Users |-> NoRateLimit]
    /\ reply = NoReply
    /\ fanout = NoFanout

NextComments ==
    \/ \E u \in Users :
          \/ \E s \in SubIds : HandleCommentButtonClick(u, s, 1)
          \/ \E len \in CommentLens :
                TextAsComment(u, len, 1) /\ CommentsStored < MaxBurst
    \/ CommentSteps
    \/ CommentWindowElapses

SpecComments == InitComments /\ [][NextComments]_vars

\* The texts with markup: of a text that is not cut down by trim alone, the
\* replacements take nothing, or all but MinLen - 1 characters.
Markup(trimmed) ==
    IF trimmed >= MinLen THEN {0, trimmed - (MinLen - 1)} ELSE {0}

NextSanitize ==
    \/ \E u \in Users, len \in TextLens :
          \E trimmed \in Trimmed(len) :
              \E markup \in Markup(trimmed) :
                  HandleMessageAt(u, len, trimmed, Later(confessions), markup)
    \/ \E u \in Users, ok \in BOOLEAN : StartIdeaSubmission(u, 1, ok)
    \/ \E u \in Users, len \in TextLens : TextAsIdea(u, len, 1)

SpecSanitize == Init /\ [][NextSanitize]_vars

\* The messages of the confession bot's users when the store holds their
\* profiles and an admin has set isActive to false on some of them.
InitBlocked ==
    /\ program = "confession"
    /\ confessions = [s \in SubIds |-> NoConfession]
    /\ ideas = [s \in SubIds |-> NoIdea]
    /\ counters = [exists |-> FALSE, confessionNumber |-> 0]
    /\ ideaCounter = [i \in Instances |-> 0]
    /\ \E blocked \in SUBSET Users :
          users = [u \in Users |->
                     [NoUser EXCEPT !.exists = TRUE, !.isRegistered = TRUE,
                                    !.isActive = (u \notin blocked)]]
    /\ comments = NoComments
    /\ session = [i \in Instances |-> [u \in Users |-> NoSession]]
    /\ channel = <<>>
    /\ inbox = {}
    /\ tasks = [t \in Tasks |-> NoTask]
    /\ allocLog = <<>>
    /\ user_rate_limits = [u \in Users |-> NoRateLimit]
    /\ reply = NoReply
    /\ fanout = NoFanout

NextBlocked ==
    \/ \E u \in Users, len \in TextLens :
          \E trimmed \in Trimmed(len) : HandleMessage(u, len, trimmed)
    \/ \E u \in Users : SendConfession(u)
    \/ \E u \in Users : CooldownElapses(u)

SpecBlocked == InitBlocked /\ [][NextBlocked]_vars

\* One process whose update of the submission may throw after the number
\* was taken, on a store that holds pending submissions.
NextWriteFaults ==
    \/ ConfessionSteps
    \/ ApproveIdeaSteps
    \/ \E t \in Tasks : ApproveUpdateThrows(t) \/ ApproveIdeaUpdateThrows(t)
    \/ \E t \in Tasks, u \in ADMIN_IDS, s \in SubIds : ApproveStart(t, u, s, 1)
    \/ \E t \in Tasks, u \in ADMIN_IDS, s \in SubIds : ApproveIdeaStart(t, u, s, 1)

SpecWriteFaults == InitLifetime /\ [][NextWriteFaults]_vars

\* The buttons and texts of moderation when they come from the users that
\* are not in ADMIN_IDS, on a store that holds pending submissions.  The
\* approve_ handler of the confession bot ends at its admin check, so none
\* of its later steps is there to be taken.
Outsiders == Users \ ADMIN_IDS

NextOutsiders ==
    \/ ApproveIdeaSteps
    \/ HandleIdeaRejectionSteps
    \/ \E u \in Outsiders :
          \/ \E t \in Tasks, s \in SubIds : ApproveStart(t, u, s, 1)
          \/ \E s \in SubIds : RejectConfession(u, s)
          \/ \E t \in Tasks, s \in SubIds : ApproveIdeaStart(t, u, s, 1)
          \/ \E s \in SubIds, ok \in BOOLEAN : RejectIdea(u, s, 1, ok)
          \/ \E t \in Tasks : HandleIdeaRejectionStart(t, u, 1)

SpecOutsiders == InitLifetime /\ [][NextOutsiders]_vars

\* The submissions with their times: a text arrives in the millisecond of
\* the latest stored submission or in a later one, up to MaxTime, and a user
\* of the confession bot sends up to MaxSubmits texts that are stored.
MaxTime == 2

MaxSubmits == 3
MaxRecorded == 3

Now(coll) == {n \in 1..MaxTime : n >= LatestCreatedAt(coll)}

NextIds ==
    \/ \E u \in Users, len \in TextLens :
          \E now \in Now(confessions) :
              users[u].totalConfessions < MaxSubmits /\ HandleMessageAt(u, len, len, now, 0)
    \/ \E u \in Users, ok \in BOOLEAN : StartIdeaSubmission(u, 1, ok)
    \/ \E u \in Users, len \in TextLens :
          \E now \in Now(ideas) : TextAsIdeaAt(u, len, 1, now)

SpecIds == Init /\ [][NextIds]_vars

\* The fan-out by itself, for every list of up to MaxAdmins ids that
\* ADMIN_IDS can hold and every set of recipients whose send throws.
MaxAdmins == 3

Recipients == 1..MaxAdmins

AdminLists == UNION {[1..n -> Recipients] : n \in 0..MaxAdmins}

InitFanout ==
    /\ program \in {"confession", "ideas"}
    /\ confessions = [s \in SubIds |-> NoConfession]
    /\ ideas = [s \in SubIds |-> NoIdea]
    /\ counters = [exists |-> FALSE, confessionNumber |-> 0]
    /\ ideaCounter = [i \in Instances |-> 0]
    /\ users = [u \in Users |-> NoUser]
    /\ comments = NoComments
    /\ session = [i \in Instances |-> [u \in Users |-> NoSession]]
    /\ channel = <<>>
    /\ inbox = {}
    /\ tasks = [t \in Tasks |-> NoTask]
    /\ allocLog = <<>>
    /\ user_rate_limits = [u \in Users |-> NoRateLimit]
    /\ reply = NoReply
    /\ \E ids \in AdminLists, failing \in SUBSET Recipients :
          fanout = [NoFanout EXCEPT !.list = ids, !.failing = failing]

\* The fan-out runs over the list drawn.
Notify ==
    /\ fanout.attempted = <<>>
    /\ fanout' = NotifyAdmins(fanout.list, fanout.failing)
    /\ UNCHANGED <<program, user_rate_limits, confessions, ideas, counters, ideaCounter, users,
                   comments, session, channel, inbox, tasks, allocLog, reply>>

NextFanout == Notify

SpecFanout == InitFanout /\ [][NextFanout]_vars

\* ------------------------------------------------------ comment rate limiter
\* checkCommentRateLimit and recordComment of the confession bot, called in
\* any order for any user.  Times are milliseconds.

windowMs == 30000
maxComments == 3

\* checkCommentRateLimit(userId): the stored list is filtered in a local
\* copy; nothing is written.
CheckCommentRateLimit(u, now) ==
    LET doc == user_rate_limits[u]
        recent == SelectSeq(doc.commentTimestamps, LAMBDA ts : now - ts <= windowMs) IN
    IF ~doc.exists THEN TRUE ELSE Len(recent) < maxComments

\* FieldValue.arrayUnion(x): x is added unless the array holds it.
ArrayUnion(arr, x) ==
    IF \E i \in DOMAIN arr : arr[i] = x THEN arr ELSE Append(arr, x)

\* recordComment(userId): one transaction that sets the document to [now] or
\* adds now to its list.
RecordComment(u, now) ==
    /\ program = "confession"
    /\ user_rate_limits' =
          [user_rate_limits EXCEPT ![u] =
              IF ~@.exists
              THEN [exists |-> TRUE, commentTimestamps |-> <<now>>, updatedAt |-> now]
              ELSE [@ EXCEPT !.commentTimestamps = ArrayUnion(@, now),
                             !.updatedAt = now]]
    /\ reply' = NoReply
    /\ fanout' = NoFanout
    /\ UNCHANGED <<program, confessions, ideas, counters, ideaCounter, users,
                   comments, session, channel, inbox, tasks, allocLog>>

\* A call of checkCommentRateLimit: a read that returns a truth value.
CheckRateLimit(u, now) ==
    /\ program = "confession"
    /\ CheckCommentRateLimit(u, now) \in BOOLEAN
    /\ reply' = NoReply
    /\ fanout' = NoFanout
    /\ UNCHANGED <<program, user_rate_limits, confessions, ideas, counters,
                   ideaCounter, users, comments, session, channel, inbox, tasks,
                   allocLog>>

InitRateLimit == Init /\ program = "confession"

LatestUpdate == MaxOf({user_rate_limits[u].updatedAt : u \in Users})

\* Date.now(): the millisecond of the latest call, the next one, or the first
\* one after the window of the latest call.
DateNow ==
    IF LatestUpdate = 0 THEN {1}
    ELSE {LatestUpdate, LatestUpdate + 1, LatestUpdate + windowMs + 1}

NextRateLimit ==
    \/ \E u \in Users, now \in DateNow :
          RecordComment(u, now)
            /\ Len(user_rate_limits[u].commentTimestamps) < MaxRecorded
    \/ \E u \in Users, now \in DateNow : CheckRateLimit(u, now)

SpecRateLimit == InitRateLimit /\ [][NextRateLimit]_vars

\* ==================================================================== claims

ApproveOps == {t \in Tasks : tasks[t].kind \in {"approve", "approveIdea"}}

Quiescent == \A t \in Tasks : tasks[t].pc \in {"idle", "done"}

AllocationsFor(s) == {n \in DOMAIN allocLog : allocLog[n].sub = s}

AllocationsOf(number) == {n \in DOMAIN allocLog : allocLog[n].num = number}

\* The approve operations of the run are on distinct submissions, each of
\* which was found in the store (a pending submission is).
DistinctPending ==
    /\ \A t \in ApproveOps : tasks[t].num # 0
    /\ \A t1, t2 \in ApproveOps : t1 # t2 => tasks[t1].sub # tasks[t2].sub

\* C1: N approve operations on N distinct stored submissions (pending ones
\* among them), run concurrently in any interleaving, are handed N different
\* numbers, and when all have finished the numbers stored on those
\* submissions are exactly k+1 .. k+N, where k = 0 is the value the counter
\* had before them.
C1_BatchNumbers ==
    /\ \A t1, t2 \in ApproveOps :
          (t1 # t2 /\ tasks[t1].sub # tasks[t2].sub /\ tasks[t1].num # 0)
              => tasks[t1].num # tasks[t2].num
    /\ (Quiescent /\ DistinctPending) =>
          {Number(tasks[t].sub) : t \in ApproveOps} = 1..Cardinality(ApproveOps)

\* C2: approving a submission whose status is already 'approved' hands out
\* no number: once a submission is approved, no further allocation is made
\* for it.
C2_NoSecondAllocation ==
    [][\A s \in SubIds :
          Status(s) = "approved" => AllocationsFor(s)' = AllocationsFor(s)]_vars

\* C3: no step of a reject operation changes the counter: at every moment
\* the counter is its initial value, 0, plus the number of allocations the
\* approve operations have made.
C3_RejectLeavesCounter == Counter = Len(allocLog)

\* A rejection has run to its end beside an approval that allocated.
C3_Witness ==
    /\ \E t \in Tasks : /\ tasks[t].kind = "reason" /\ tasks[t].pc = "done"
                        /\ Status(tasks[t].sub) = "rejected"
    /\ \E t \in ApproveOps : tasks[t].num # 0
    /\ Len(allocLog) >= 1

\* C4: over the lifetime of the store, restarts and several instances
\* included, no two submissions carry the same number, and every stored
\* number was returned by exactly one allocation.
C4_UniqueNumbers ==
    /\ \A s1, s2 \in SubIds :
          (s1 # s2 /\ Number(s1) # 0) => Number(s1) # Number(s2)
    /\ \A s \in SubIds :
          Number(s) # 0 => Cardinality(AllocationsOf(Number(s))) = 1

\* C5: 'approved' and 'rejected' are terminal: no step changes the status of
\* a submission that is approved or rejected.
C5_TerminalStatus ==
    [][\A s \in SubIds :
          Status(s) \in {"approved", "rejected"} => Status(s)' = Status(s)]_vars

\* C6: a submission carries a number only while its status is 'approved'.
C6_NumberOnlyIfApproved ==
    \A s \in SubIds : Number(s) # 0 => Status(s) = "approved"

\* C7: a stored number never changes and is never removed.
C7_NumberImmutable ==
    [][\A s \in SubIds : Number(s) # 0 => Number(s)' = Number(s)]_vars

\* The record of s has been written with status 'approved' and a number.
ApprovalStored(s) ==
    IF program = "confession"
    THEN confessions[s].approvedAt /\ confessions[s].confessionNumber # 0
    ELSE ideas[s].approvedAt /\ ideas[s].ideaNumber # 0

\* C8: the publish call of an approval is made only after the record was
\* written with status 'approved' and its number: while a publish call is in
\* flight, and for every message in the channel, the record has its number.
C8_StoredBeforePublish ==
    /\ \A t \in ApproveOps : tasks[t].pc = "post" => ApprovalStored(tasks[t].sub)
    /\ \A n \in DOMAIN channel : ApprovalStored(channel[n].sub)

\* A publish call is in flight for a submission that is stored as approved.
C8_Witness ==
    \E t \in ApproveOps :
        /\ tasks[t].pc = "post"
        /\ Status(tasks[t].sub) = "approved"
        /\ Number(tasks[t].sub) = tasks[t].num

\* The approval t has ended and its publish call failed.
PublishFailed(t) ==
    /\ t \in ApproveOps
    /\ tasks[t].pc = "done" /\ tasks[t].num # 0 /\ ~tasks[t].posted

\* The publish reference stored for s: channelMessageId on an idea; the
\* confession bot keeps none but the comment section created after the post.
PublishReference(s) ==
    IF program = "confession" THEN comments[s] ELSE ideas[s].channelMessageId

\* C9: an approval whose publish call fails ends with the submission stored
\* as 'approved', with the number it allocated and without a publish
\* reference.
C9_PublishFailureLeavesApproved ==
    [][\A t \in Tasks :
          (~PublishFailed(t) /\ PublishFailed(t)') =>
              /\ Status(tasks[t].sub)' = "approved"
              /\ Number(tasks[t].sub)' = tasks[t].num'
              /\ PublishReference(tasks[t].sub)' = 0]_vars

Successes ==
    {"Posted to channel successfully", "Approved!",
     "Idea has been posted to the channel", "Idea approved!"}

Failures == {"Approval failed", "Error approving idea"}

\* C10: after a failed publish call the moderator has a failure report and
\* no success confirmation, and the author has no notice of the approval.
C10_PublishFailureReported ==
    \A t \in Tasks :
        PublishFailed(t) =>
            /\ tasks[t].out \cap Failures # {}
            /\ tasks[t].out \cap Successes = {}
            /\ [to |-> tasks[t].author, kind |-> "approved",
                sub |-> tasks[t].sub, num |-> tasks[t].num] \notin inbox

\* The approve operation t ended because its allocation threw.
AllocationFailed(t) ==
    /\ tasks[t].kind = "approve" /\ tasks[t].pc = "done"
    /\ tasks[t].author # 0 /\ tasks[t].num = 0

\* C11: the step in which an approval's allocation fails changes neither the
\* submission (its status stays as it was, 'pending' for a pending one, and
\* it gets no number) nor the counter, publishes nothing, notifies nobody,
\* and reports the failure, and no success, to the moderator.
C11_AllocationFailure ==
    [][\A t \in Tasks :
          (~AllocationFailed(t) /\ AllocationFailed(t)') =>
              /\ confessions' = confessions
              /\ counters' = counters
              /\ channel' = channel /\ comments' = comments
              /\ inbox' = inbox
              /\ tasks'[t].out \cap Failures # {}
              /\ tasks'[t].out \cap Successes = {}]_vars

\* An approval of s failed in its allocation, s stayed pending, and a later
\* approval of s has stored a number and published.
C11_Witness ==
    \E t1, t2 \in Tasks :
        /\ AllocationFailed(t1)
        /\ t1 < t2 /\ tasks[t2].sub = tasks[t1].sub
        /\ tasks[t2].pc = "done" /\ tasks[t2].posted
        /\ Status(tasks[t2].sub) = "approved"
        /\ Number(tasks[t2].sub) = tasks[t2].num

\* The highest number stored on an approved submission, 0 when there is none.
MaxStored ==
    MaxOf({Number(s) : s \in {r \in SubIds : Status(r) = "approved"}})

\* The step hands out a number and is the allocator's first use without a
\* counter record: the document system/counters is missing (confession bot),
\* or the allocating process has handed out nothing since it started, its
\* ideaCounter being 0 (ideas bot, which keeps no record in the store).
FirstAllocation ==
    /\ Len(allocLog') = Len(allocLog) + 1
    /\ IF program = "confession"
       THEN ~counters.exists
       ELSE \E i \in Instances : ideaCounter[i] = 0 /\ ideaCounter'[i] # 0

\* C12: the first number the allocator hands out when it has no counter
\* record is m + 1, m being the highest number stored on an approved
\* submission (0 if none), hence larger than every stored number.
C12_Bootstrap ==
    [][FirstAllocation => allocLog'[Len(allocLog')].num = MaxStored + 1]_vars

Flows == {"submit", "comment", "reject", "message"}

\* The flows the session holds as pending.
PendingFlows(sess) ==
    {f \in Flows :
        \/ f = "submit" /\ sess.waitingForIdea
        \/ f = "comment" /\ sess.waitingForComment
        \/ f = "reject" /\ sess.rejectingIdea # 0
        \/ f = "message" /\ sess.messagingUser # 0}

\* The step starts flow f for user u on instance i: it sets the flow's flag,
\* or gives the flow a new target.
Starts(i, u, f) ==
    LET old == session[i][u]
        new == session'[i][u] IN
    \/ f = "submit" /\ ~old.waitingForIdea /\ new.waitingForIdea
    \/ f = "comment" /\ new.waitingForComment
          /\ (~old.waitingForComment \/ old.commentIdeaId # new.commentIdeaId)
    \/ f = "reject" /\ new.rejectingIdea # 0
          /\ old.rejectingIdea # new.rejectingIdea
    \/ f = "message" /\ new.messagingUser # 0
          /\ old.messagingUser # new.messagingUser

\* C13: when a user starts flow B while another flow is pending, the user's
\* next free-text message is routed to B: after every step that starts a
\* flow, the text handler of that user selects this flow.
C13_LastFlowWins ==
    [][\A i \in Instances, u \in Users, f \in Flows :
          Starts(i, u, f) => Route(session'[i][u]) = f]_vars

\* C14: every session holds at most one pending flow.
C14_OnePendingFlow ==
    \A i \in Instances, u \in Users :
        Cardinality(PendingFlows(session[i][u])) <= 1

ValidationFailures ==
    {"Idea is too short", "Idea is too long",
     "Comment is too short", "Comment is too long"}

\* C15: a step that answers a text with a validation failure leaves every
\* session as it was, so the flow it was routed to is still the one the
\* next text is routed to, with the same target.
C15_ValidationKeepsSession ==
    [][reply' \in ValidationFailures =>
          /\ session' = session
          /\ \E i \in Instances, u \in Users :
                Route(session'[i][u]) =
                    (IF reply' \in {"Idea is too short", "Idea is too long"}
                     THEN "submit" ELSE "comment")]_vars

\* A comment of 501 characters has just been refused, and the comment flow
\* on idea 1 is still the one a text is routed to.
C15_Witness ==
    /\ reply = "Comment is too long"
    /\ \E i \in Instances, u \in Users :
          /\ Route(session[i][u]) = "comment"
          /\ session[i][u].commentIdeaId = 1

\* The step completes a pending flow of user u on instance i with success:
\* the idea or the comment is stored, the rejection is applied and both
\* notices are sent, or the moderator's message is sent.
Completes(i, u) ==
    \/ /\ reply' = "Idea Submitted"
       /\ session[i][u].waitingForIdea /\ ~session'[i][u].waitingForIdea
    \/ /\ reply' = "Comment Added"
       /\ session[i][u].waitingForComment /\ ~session'[i][u].waitingForComment
    \/ \E t \in Tasks :
          /\ tasks[t].kind = "reason" /\ tasks[t].from = u /\ tasks[t].inst = i
          /\ tasks[t].pc = "finish" /\ tasks'[t].pc = "done"
          /\ "Idea rejected with reason" \in tasks'[t].out
    \/ /\ reply' = "Message sent to user"
       /\ session[i][u].messagingUser # 0 /\ session'[i][u].messagingUser = 0

\* C16: after a flow's handler has completed with success the user's session
\* is idle: the next text is routed to no handler.
C16_IdleAfterSuccess ==
    [][\A i \in Instances, u \in Users :
          Completes(i, u) => Route(session'[i][u]) = "none"]_vars

\* The step stores a new pending submission.
NewPending == \E s \in SubIds : Status(s) = "none" /\ Status(s)' = "pending"

SubmitErrors ==
    {"Confession too short", "Confession too long",
     "Idea is too short", "Idea is too long", "Please wait"}

\* The step handles a free text, neither command nor menu label, of a user
\* with no pending flow: every text that reaches handleMessage's last part
\* in the confession bot, which keeps no session, and the text that finds no
\* flag set in the ideas bot.
IdleText ==
    IF program = "confession"
    THEN reply' \notin {NoReply, "Please wait", "Send Your Confession", RejectPrompt}
    ELSE reply' = "no answer"

\* C17: a free text of an idle user is handled as a submission attempt: the
\* step stores a pending submission or answers with a validation or cooldown
\* error; it neither leaves the text unanswered nor answers with the menu.
C17_IdleTextIsSubmission ==
    [][IdleText => (NewPending \/ reply' \in SubmitErrors)]_vars

\* C18: a submitted text (one without blanks at its ends) is stored as a
\* pending submission exactly when its length is within MinLen..MaxLen, and
\* is answered with a validation error otherwise.
C18_LengthRange ==
    [][\A u \in Users, len \in TextLens :
          (HandleMessage(u, len, len) \/ TextAsIdea(u, len, 1)) =>
              /\ NewPending <=> len \in MinLen..MaxLen
              /\ len \notin MinLen..MaxLen => reply' \in SubmitErrors]_vars

\* C19: handling a text shorter than MinLen leaves the store as it is:
\* submissions, user records with their cooldown, counter and comments.
C19_ShortTextWritesNothing ==
    [][\A u \in Users :
          (HandleMessage(u, MinLen - 1, MinLen - 1) \/ TextAsIdea(u, MinLen - 1, 1))
              => UNCHANGED <<confessions, ideas, users, counters, comments>>]_vars

\* C20: while a user's cooldown window is open, no step stores a new pending
\* submission of that user.
C20_CooldownBlocksSubmit ==
    [][\A u \in Users :
          users[u].cooldown =>
              ~ \E s \in SubIds : /\ ~confessions[s].exists
                                  /\ confessions'[s].exists
                                  /\ confessions'[s].userId = u]_vars

\* Submission s has a record in the store.
Stored(s) ==
    IF program = "confession" THEN confessions[s].exists ELSE ideas[s].exists

NotFound == {"Confession not found", "Idea not found"}

\* C23: a moderator's approve operation on an id that is not in the store changes
\* nothing in any of its steps (counter, submission records, channel,
\* comments, notices, allocations) and ends with the answer 'not found'.
C23_ApproveUnknownId ==
    [][\A t \in Tasks :
          (t \in ApproveOps' /\ tasks'[t] # tasks[t] /\ isAdmin(tasks'[t].from)
              /\ ~Stored(tasks'[t].sub)) =>
              /\ UNCHANGED <<confessions, ideas, counters, ideaCounter,
                             channel, comments, inbox, allocLog>>
              /\ tasks'[t].pc \in {"get", "done"}
              /\ tasks'[t].pc = "done" => tasks'[t].out \cap NotFound # {}]_vars

\* An approval of an id that is not in the store has ended with 'not found'
\* while another submission is stored.
C23_Witness ==
    \E t \in ApproveOps :
        /\ tasks[t].pc = "done" /\ tasks[t].out \cap NotFound # {}
        /\ ~Stored(tasks[t].sub)
        /\ \E s \in SubIds : Stored(s)

\* C28: a notification never raises to the operation that sends it: the
\* step in which an approval's notice to the author is sent, delivered or
\* not, goes on to the moderator's success confirmation.
C28_NotificationNeverRaises ==
    [][\A t \in ApproveOps :
          (tasks[t].pc = "notify" /\ tasks'[t].pc # "notify") =>
              /\ tasks'[t].pc = "confirm"
              /\ tasks'[t].out \cap Failures = {}]_vars
\* C22: when a moderator has pressed reject on a pending submission and
\* then sends the reason as a text, the submission becomes 'rejected', the
\* reason is stored on it and the rejection notice reaches the author: in
\* the confession bot the text that follows the prompt, in the ideas bot the
\* reason handler that ends without a failed send.
C22_RejectWithReason ==
    [][/\ \A u \in ADMIN_IDS, len \in TextLens :
             (/\ reply = RejectPrompt
              /\ \E s \in SubIds : Status(s) = "pending"
              /\ \E trimmed \in Trimmed(len) : HandleMessage(u, len, trimmed)) =>
                 \E s \in SubIds :
                    /\ Status(s) = "pending" /\ Status(s)' = "rejected"
                    /\ \E m \in inbox' : m.kind = "rejected" /\ m.sub = s
       /\ \A t \in Tasks :
             (/\ tasks[t].kind = "reason" /\ tasks[t].pc = "finish"
              /\ tasks'[t].pc = "done" /\ "An error occurred" \notin tasks'[t].out) =>
                 /\ ideas'[tasks[t].sub].status = "rejected"
                 /\ ideas'[tasks[t].sub].rejectionReason
                 /\ \E m \in inbox' : /\ m.kind = "rejected" /\ m.sub = tasks[t].sub
                                       /\ m.to = ideas[tasks[t].sub].userId]_vars

\* The recipients of a list.
Range(ids) == {ids[k] : k \in 1..Len(ids)}

\* The step ran a fan-out.
FanoutRan == fanout'.attempted # fanout.attempted

\* C27: a fan-out issues a send to every id of the list, in order, whatever
\* the outcome of the other sends, and every recipient whose own send does
\* not throw gets the message.
C27_EveryAdminAttempted ==
    [][FanoutRan =>
          /\ fanout'.attempted = fanout'.list
          /\ fanout'.delivered = Range(fanout'.list) \ fanout'.failing]_vars

\* A fan-out in which a send threw and a later recipient got the message.
C27_Witness ==
    \E j, k \in 1..Len(fanout.attempted) :
        /\ j < k
        /\ fanout.attempted[j] \in fanout.failing
        /\ fanout.attempted[k] \in fanout.delivered

\* C29: the value a fan-out returns names exactly the recipients whose send
\* did not throw.
C29_ReturnsDelivered ==
    [][FanoutRan =>
          \A r \in Range(fanout'.list) :
              r \in fanout'.returned <=> r \notin fanout'.failing]_vars

\* The step answers a submission with the success text.
Submitted == reply' \in {"Confession Submitted", "Idea Submitted"}

\* C21: a submit that is answered as successful has stored a pending
\* submission of the author, raised the author's submission count by one,
\* recorded the author's cooldown, and issued a send to every admin.
C21_SubmitEffects ==
    [][\A u \in Users, len \in TextLens :
          (/\ Submitted
           /\ \/ \E trimmed \in Trimmed(len) : HandleMessage(u, len, trimmed)
              \/ TextAsIdea(u, len, 1)) =>
              /\ \E s \in SubIds :
                    /\ Status(s) = "none" /\ Status(s)' = "pending"
                    /\ (IF program = "confession" THEN confessions'[s].userId
                        ELSE ideas'[s].userId) = u
              /\ users'[u].totalConfessions = users[u].totalConfessions + 1
              /\ users'[u].cooldown
              /\ Range(fanout'.attempted) = ADMIN_IDS]_vars

\* checkCommentRateLimit's default maxComments.
RateLimit == 3

\* C24: a user with RateLimit accepted comments inside the window of 30000
\* ms gets no further comment stored, and a user with fewer has a valid
\* comment text stored.
C24_CommentRateLimit ==
    [][\A u \in Users :
          /\ RecentBy(u) >= RateLimit =>
                \A s \in SubIds : comments'[s][u].stored <= comments[s][u].stored
          /\ (RecentBy(u) < RateLimit /\ TextAsComment(u, MinComment, 1)) =>
                \E s \in SubIds : comments'[s][u].stored = comments[s][u].stored + 1]_vars

\* No comment handler is between its write of the comment and its end.
NoCommentInFlight == \A t \in Tasks : tasks[t].kind # "comment"

\* C25: when the comment handlers of different users on an approved idea
\* have all finished, the idea's commentCount has grown by one per comment
\* stored, from the 0 that both start at.
C25_NoLostIncrement ==
    \A s \in SubIds :
        (/\ program = "ideas" /\ NoCommentInFlight
         /\ ideas[s].status = "approved"
         /\ \A u \in Users : comments[s][u].stored <= 1) =>
            ideas[s].commentCount = CommentsOn(s)

\* C26: a comment is stored only for an idea that exists and is approved
\* when the text is handled; a text for any other idea is answered as not
\* found and leaves the comments and every commentCount as they are.
C26_CommentNeedsApproved ==
    [][\A u \in Users, len \in CommentLens :
          (/\ TextAsComment(u, len, 1)
           /\ session[1][u].commentIdeaId # 0
           /\ Status(session[1][u].commentIdeaId) # "approved") =>
              /\ comments' = comments
              /\ \A s \in SubIds : ideas'[s].commentCount = ideas[s].commentCount
              /\ reply' \in NotFound]_vars

\* C30: a comment that is answered as added has been announced by one send,
\* to the idea's owner, when the commenter is another user, and by no send
\* when the commenter is the owner.
C30_OwnerNotified ==
    [][\A t \in Tasks :
          (tasks[t].kind = "comment" /\ tasks'[t].kind # "comment"
              /\ reply' = "Comment Added") =>
              fanout'.attempted =
                  (IF ideas[tasks[t].sub].userId # tasks[t].from
                   THEN <<ideas[tasks[t].sub].userId>> ELSE <<>>)]_vars

\* The comment of another user has just been added and announced to the
\* owner of idea 1.
C30_Witness ==
    /\ reply = "Comment Added"
    /\ fanout.delivered = {ideas[1].userId}
    /\ \E u \in Users : u # ideas[1].userId /\ comments[1][u].stored > 0

\* C35: in the confession bot the text a moderator sends in answer to the
\* reject prompt is never stored as a new pending confession of that
\* moderator.
C35_ReasonNotStored ==
    [][\A u \in ADMIN_IDS, len \in TextLens :
          (/\ reply = RejectPrompt
           /\ \E trimmed \in Trimmed(len) : HandleMessage(u, len, trimmed)) =>
              ~ \E s \in SubIds : /\ ~confessions[s].exists
                                  /\ confessions'[s].exists
                                  /\ confessions'[s].userId = u
                                  /\ confessions'[s].status = "pending"]_vars

\* The number in the moderator's confirmation of approval t: nextNumber in
\* the confession bot, ideaCounter as it is when the text is built in the
\* ideas bot.
ConfirmedNumber(t) ==
    IF program = "confession" THEN tasks[t].num ELSE tasks[t].shown

Confirmations ==
    {"Posted to channel successfully", "Idea has been posted to the channel"}

\* C31: for an approval that is the only one of its submission, whatever
\* approvals of other submissions run beside it, the number in the channel
\* post, the number in the author's notice and the number in the moderator's
\* confirmation are the number stored on the submission.
C31_OneNumberShown ==
    \A t \in ApproveOps :
        (\A t2 \in ApproveOps : t2 # t => tasks[t2].sub # tasks[t].sub) =>
            LET s == tasks[t].sub IN
            /\ \A n \in DOMAIN channel :
                  channel[n].sub = s => channel[n].num = Number(s)
            /\ \A m \in inbox :
                  (m.kind = "approved" /\ m.sub = s) => m.num = Number(s)
            /\ (tasks[t].pc = "done" /\ tasks[t].out \cap Confirmations # {}) =>
                  ConfirmedNumber(t) = Number(s)

\* C32: a submit that is answered as successful has created its document
\* under an id that no stored submission had: no stored submission is
\* replaced, whatever the time of the submit.
C32_FreshSubmissionId ==
    [][Submitted =>
          /\ \E s \in SubIds : ~Stored(s) /\ Stored(s)'
          /\ \A s \in SubIds :
                Stored(s) => (confessions'[s] = confessions[s] /\ ideas'[s] = ideas[s])]_vars

\* C36: a submit that is answered with the 'Error submitting' text leaves
\* no submission of that attempt in the store.
C36_SubmitAllOrNothing ==
    [][reply' \in {"Error submitting confession", "Error submitting idea"} =>
          /\ confessions' = confessions
          /\ ideas' = ideas]_vars

\* C37: a step of an approve or reject operation that a user outside
\* ADMIN_IDS started, by a button or by a reason text, changes neither the
\* status of a submission nor the counter.
C37_OnlyAdminsModerate ==
    [][\A t \in Tasks :
          (tasks'[t] # tasks[t] /\ ~isAdmin(tasks'[t].from)) =>
              /\ \A s \in SubIds : Status(s)' = Status(s)
              /\ Counter' = Counter]_vars

\* C34: every number taken from the counter ends up stored on a submission:
\* when the approvals, each of a submission of its own, have all ended,
\* every number from 1 to the counter's value is the number of a submission.
C34_NoNumberLost ==
    (/\ Quiescent
     /\ \A t1, t2 \in ApproveOps : t1 # t2 => tasks[t1].sub # tasks[t2].sub) =>
        \A n \in 1..Counter : \E s \in SubIds : Number(s) = n

\* C38: no step stores a new pending confession of a user whose profile
\* has isActive false, and every submit attempt of such a user, by the menu
\* or by a text, is answered as refused.
C38_BlockedCannotSubmit ==
    [][\A u \in Users :
          (users[u].exists /\ ~users[u].isActive) =>
              /\ ~ \E s \in SubIds : /\ ~confessions[s].exists
                                      /\ confessions'[s].exists
                                      /\ confessions'[s].userId = u
              /\ \A len \in TextLens :
                    ((\E trimmed \in Trimmed(len) : HandleMessage(u, len, trimmed))
                        \/ SendConfession(u)) => reply' \notin {"Confession Submitted",
                                                                "Send Your Confession"}]_vars

\* C39: the text of every stored submission has a length from MinLen to
\* MaxLen.
C39_StoredTextInRange ==
    \A s \in SubIds :
        /\ confessions[s].exists => confessions[s].text = "ok"
        /\ ideas[s].exists => ideas[s].text = "ok"

\* C33: the stored list of a user's comment times holds no time that lies
\* more than windowMs before the last write of the list, so that its length
\* is bounded by the number of milliseconds of one window.
C33_TimestampsExpire ==
    \A u \in Users :
        \A i \in DOMAIN user_rate_limits[u].commentTimestamps :
            user_rate_limits[u].updatedAt
                - user_rate_limits[u].commentTimestamps[i] <= windowMs

====
